---- MODULE Spec2Model ----
(***************************************************************************)
(* Model of the progress subscription of article-mind-ui:                  *)
(* subscribeToProgress ($lib/api/sse) and the EventSource object it        *)
(* creates.  Every action is one task of the browser's event loop, run to  *)
(* completion: a network step of the EventSource, the dispatch of one      *)
(* queued event to the listeners that subscribeToProgress registered, or   *)
(* a call of the returned cleanup function by the caller.                  *)
(***************************************************************************)
EXTENDS Integers, Sequences, FiniteSets, TLC

VARIABLES
    taskId,        \* the taskId argument of subscribeToProgress ("none" before the call)
    hasOnError,    \* whether the optional onError argument was supplied
    readyState,    \* eventSource.readyState ("NONE" before new EventSource)
    fetchActive,   \* the EventSource holds a live HTTP fetch
    reconnectWait, \* the EventSource's reconnection timer is running
    tasks,         \* events the EventSource has queued and not yet dispatched
    connects,      \* URLs of the fetches started by the EventSource, in order
    trace,         \* observable effects, in order: callback calls, console.error, uncaught
    dispatched,    \* frames dispatched to the listeners, in order
    dropped,       \* queued events discarded because the EventSource was closed
    closedBy,      \* which path closed the connection first
    disposeCalls,  \* calls of the returned cleanup function so far
    sent,          \* frames the server has written to the stream
    netErrors,     \* transport failures so far
    page,          \* the $state variables of the admin page (routes/admin/+page.svelte)
    unsubscribe,   \* the admin page's unsubscribe: 0 (null) or the index in subs
    subs,          \* the subscriptions the admin page has opened, in order
    starting,      \* startReindex requests of the admin page awaiting their response
    cancelling,    \* task ids of the cancelReindex requests awaiting their response
    timers,        \* auto-close timers of the admin page not yet fired, oldest first
    lastFrame,     \* the frame most recently delivered to one of the page's subscriptions
    chat,          \* the $state variables of the chat panel (ChatContainer.svelte)
    loading,       \* the getChatHistory request of the mount awaits its response
    sending,       \* the handleSendMessage call awaiting sendMessage, or NoSend
    clearing,      \* how many handleClearHistory calls await clearChatHistory
    sendOutcome,   \* how the most recent handleSendMessage call finished
    sends,         \* how many messages the user has sent
    response,      \* the response the fetch() of the last ApiClient.fetch call resolved with
    outcome,       \* what the last ApiClient.fetch call returned or threw
    call,          \* the last call of an ApiClient method
    issued         \* the fetch() calls that call has issued, in order

vars == <<taskId, hasOnError, readyState, fetchActive, reconnectWait, tasks, connects,
          trace, dispatched, dropped, closedBy, disposeCalls, sent, netErrors>>

pageVars == <<page, unsubscribe, subs, starting, cancelling, timers, lastFrame>>

chatVars == <<chat, loading, sending, clearing, sendOutcome, sends>>

apiVars == <<response, outcome, call, issued>>

\* What the steps of one subscription leave alone.
otherThanSub == <<pageVars, chatVars, apiVars>>

\* What the steps of the admin page leave alone.
otherThanPage == <<vars, chatVars, apiVars>>

\* What the steps of the chat panel leave alone.
otherThanChat == <<vars, pageVars, apiVars>>

\* What the calls of ApiClient.fetch leave alone.
otherThanApi == <<vars, pageVars, chatVars>>

(* ----------------------------- bounds ---------------------------------- *)
MaxFrames == 3
MaxErrors == 1
MaxDispose == 2

(* ----------------------------- data ------------------------------------ *)
TaskIds == {"task-42"}

API_BASE_URL == "http://localhost:8000"

Statuses == {"pending", "running", "completed", "failed", "cancelled"}

\* The statuses the modelled server writes: subscribeToProgress never reads
\* the status, so one non-terminal and one terminal status stand for all.
StreamStatuses == {"running", "completed"}

TerminalStatuses == {"completed", "failed", "cancelled"}

FrameNames == {"progress", "complete"}

\* e.data of a MessageEvent: the text of the frame.  A well-formed text is the
\* JSON of a ProgressEvent; the n-th frame of the stream carries processed_items = n.
FrameData(n) ==
    [wellFormed : {TRUE}, status : StreamStatuses, processed_items : {n}]
        \cup {[wellFormed |-> FALSE, status |-> "running", processed_items |-> n]}

\* What a caller's callback does when invoked: return, call the cleanup
\* function and return, or throw.
CallbackBehaviours == {"return", "dispose", "throw"}

url(t) == <<API_BASE_URL, "/api/v1/admin/reindex/", t, "/progress">>

\* JSON.parse(e.data) as ProgressEvent: the decoded event, or a SyntaxError.
JSONParse(data) ==
    IF data.wellFormed
    THEN [ok |-> TRUE,
          value |-> [f \in DOMAIN data \ {"wellFormed"} |-> data[f]]]
    ELSE [ok |-> FALSE, value |-> "SyntaxError"]

(* ------------------ the subscription as a record ----------------------- *)
\* Handlers run to completion; they are written as functions on the record
\* of the fields they read and write.
Sub ==
    [readyState |-> readyState, fetchActive |-> fetchActive, trace |-> trace,
     closedBy |-> closedBy, disposeCalls |-> disposeCalls]

Store(s) ==
    /\ readyState' = s.readyState
    /\ fetchActive' = s.fetchActive
    /\ trace' = s.trace
    /\ closedBy' = s.closedBy
    /\ disposeCalls' = s.disposeCalls

\* eventSource.close(): aborts the fetch and sets readyState to CLOSED; a
\* second call changes nothing.
close(s, why) ==
    IF s.readyState = "CLOSED"
    THEN s
    ELSE [s EXCEPT !.readyState = "CLOSED", !.fetchActive = FALSE, !.closedBy = why,
                   !.trace = Append(@, [op |-> "close", arg |-> why])]

consoleError(s, what) ==
    [s EXCEPT !.trace = Append(@, [op |-> "console.error", arg |-> what])]

\* A cleanup function that forgets to close the EventSource.
cleanupNoClose(s) ==
    [s EXCEPT !.disposeCalls = @ + 1]

\* A cleanup function that is not idempotent: it marks the subscription as
\* disposed whatever closed it before.
cleanupOverwrites(s) ==
    [close([s EXCEPT !.disposeCalls = @ + 1], "dispose") EXCEPT !.closedBy = "dispose"]

\* The cleanup function returned by subscribeToProgress.
cleanup(s) ==
    close([s EXCEPT !.disposeCalls = @ + 1], "dispose")

\* A call of a caller's callback: the call is observed, then the callback
\* behaves as `how` says.
Call(s, cb, arg, how) ==
    LET called == [s EXCEPT !.trace = Append(@, [op |-> cb, arg |-> arg])]
    IN  IF how = "dispose" THEN cleanup(called) ELSE called

\* A 'progress' listener that closes on a terminal status instead of
\* forwarding the event.
progressListenerSkipsTerminal(s, data, how) ==
    LET p == JSONParse(data)
    IN  IF ~p.ok
        THEN consoleError(s, "Failed to parse progress event:")
        ELSE IF p.value.status \in TerminalStatuses
        THEN close(s, "complete")
        ELSE LET s1 == Call(s, "onProgress", p.value, how)
             IN  IF how = "throw"
                 THEN consoleError(s1, "Failed to parse progress event:")
                 ELSE s1

\* A 'progress' listener whose catch block closes the connection.
progressListenerClosesOnBadFrame(s, data, how) ==
    LET p == JSONParse(data)
    IN  IF ~p.ok
        THEN close(consoleError(s, "Failed to parse progress event:"), "error")
        ELSE LET s1 == Call(s, "onProgress", p.value, how)
             IN  IF how = "throw"
                 THEN consoleError(s1, "Failed to parse progress event:")
                 ELSE s1

\* A 'progress' listener without the try/catch around onProgress.
progressListenerNoCatch(s, data, how) ==
    LET p == JSONParse(data)
    IN  IF ~p.ok
        THEN consoleError(s, "Failed to parse progress event:")
        ELSE LET s1 == Call(s, "onProgress", p.value, how)
             IN  IF how = "throw"
                 THEN [s1 EXCEPT !.trace = Append(@, [op |-> "uncaught", arg |-> "progress"])]
                 ELSE s1

\* eventSource.addEventListener('progress', ...)
progressListener(s, data, how) ==
    LET p == JSONParse(data)
    IN  IF ~p.ok
        THEN consoleError(s, "Failed to parse progress event:")
        ELSE LET s1 == Call(s, "onProgress", p.value, how)
             IN  IF how = "throw"
                 THEN consoleError(s1, "Failed to parse progress event:")
                 ELSE s1

\* A 'complete' listener that never closes the connection.
completeListenerNoClose(s, data, how) ==
    LET p == JSONParse(data)
    IN  IF ~p.ok
        THEN consoleError(s, "Failed to parse complete event:")
        ELSE LET s1 == Call(s, "onProgress", p.value, how)
             IN  IF how = "throw"
                 THEN consoleError(s1, "Failed to parse complete event:")
                 ELSE s1

\* A 'complete' listener that closes at the end of its try block instead of
\* in a finally block.
completeListenerCloseInTry(s, data, how) ==
    LET p == JSONParse(data)
    IN  IF ~p.ok
        THEN consoleError(s, "Failed to parse complete event:")
        ELSE LET s1 == Call(s, "onProgress", p.value, how)
             IN  IF how = "throw"
                 THEN consoleError(s1, "Failed to parse complete event:")
                 ELSE close(s1, "complete")

\* eventSource.addEventListener('complete', ...)
completeListener(s, data, how) ==
    LET p == JSONParse(data)
        s2 == IF ~p.ok
              THEN consoleError(s, "Failed to parse complete event:")
              ELSE LET s1 == Call(s, "onProgress", p.value, how)
                   IN  IF how = "throw"
                       THEN consoleError(s1, "Failed to parse complete event:")
                       ELSE s1
    IN  close(s2, "complete")

\* eventSource.onerror
onerror(s, supplied, how) ==
    LET s1 == consoleError(s, "SSE connection error:")
    IN  IF ~supplied
        THEN close(s1, "error")
        ELSE LET s2 == Call(s1, "onError", "Event", how)
             IN  IF how = "throw"
                 THEN [s2 EXCEPT !.trace = Append(@, [op |-> "uncaught", arg |-> "onerror"])]
                 ELSE close(s2, "error")

\* The calls of callback cb recorded in trace tr, in order.
Calls(tr, cb) == SelectSeq(tr, LAMBDA e : e.op = cb)

(* ----------------------------- actions --------------------------------- *)
SubInit ==
    /\ taskId = "none"
    /\ hasOnError = FALSE
    /\ readyState = "NONE"
    /\ fetchActive = FALSE
    /\ reconnectWait = FALSE
    /\ tasks = <<>>
    /\ connects = <<>>
    /\ trace = <<>>
    /\ dispatched = <<>>
    /\ dropped = <<>>
    /\ closedBy = "none"
    /\ disposeCalls = 0
    /\ sent = 0
    /\ netErrors = 0

\* subscribeToProgress(taskId, onProgress, onError?): new EventSource(url)
\* starts the one fetch; the listeners are registered.
subscribeToProgress(t, supplied) ==
    /\ UNCHANGED otherThanSub
    /\ readyState = "NONE"
    /\ taskId' = t
    /\ hasOnError' = supplied
    /\ readyState' = "CONNECTING"
    /\ fetchActive' = TRUE
    /\ connects' = <<url(t)>>
    /\ UNCHANGED <<reconnectWait, tasks, trace, dispatched, dropped, closedBy,
                   disposeCalls, sent, netErrors>>

\* The server answers the fetch with 200 text/event-stream.
AnnounceConnection ==
    /\ UNCHANGED otherThanSub
    /\ readyState = "CONNECTING"
    /\ fetchActive
    /\ readyState' = "OPEN"
    /\ UNCHANGED <<taskId, hasOnError, fetchActive, reconnectWait, tasks, connects,
                   trace, dispatched, dropped, closedBy, disposeCalls, sent, netErrors>>

\* A frame arrives on the stream: the EventSource queues its dispatch.
FrameArrives(name, data) ==
    /\ UNCHANGED otherThanSub
    /\ readyState = "OPEN"
    /\ fetchActive
    /\ sent < MaxFrames
    /\ sent' = sent + 1
    /\ tasks' = Append(tasks, [kind |-> "message", name |-> name, data |-> data])
    /\ UNCHANGED <<taskId, hasOnError, readyState, fetchActive, reconnectWait, connects,
                   trace, dispatched, dropped, closedBy, disposeCalls, netErrors>>

\* The connection drops (network failure, server closes the stream): the
\* EventSource queues the error event and starts its reconnection timer.
ConnectionLost ==
    /\ UNCHANGED otherThanSub
    /\ readyState \in {"CONNECTING", "OPEN"}
    /\ fetchActive
    /\ netErrors < MaxErrors
    /\ netErrors' = netErrors + 1
    /\ fetchActive' = FALSE
    /\ reconnectWait' = TRUE
    /\ tasks' = Append(tasks, [kind |-> "reestablish", name |-> "error", data |-> "Event"])
    /\ UNCHANGED <<taskId, hasOnError, readyState, connects, trace, dispatched,
                   dropped, closedBy, disposeCalls, sent>>

\* The handshake fails (non-200 status, wrong content type): the EventSource
\* queues the failure of the connection.
HandshakeFails ==
    /\ UNCHANGED otherThanSub
    /\ readyState = "CONNECTING"
    /\ fetchActive
    /\ netErrors < MaxErrors
    /\ netErrors' = netErrors + 1
    /\ fetchActive' = FALSE
    /\ tasks' = Append(tasks, [kind |-> "fail", name |-> "error", data |-> "Event"])
    /\ UNCHANGED <<taskId, hasOnError, readyState, reconnectWait, connects, trace,
                   dispatched, dropped, closedBy, disposeCalls, sent>>

\* The queued dispatch of a frame runs: nothing is dispatched at a closed
\* EventSource; otherwise the listener registered for the frame's name runs.
DispatchMessage(how) ==
    /\ UNCHANGED otherThanSub
    /\ tasks # <<>>
    /\ Head(tasks).kind = "message"
    /\ tasks' = Tail(tasks)
    /\ IF readyState = "CLOSED"
       THEN /\ dropped' = Append(dropped, Head(tasks))
            /\ UNCHANGED <<readyState, fetchActive, trace, closedBy, disposeCalls,
                           dispatched>>
       ELSE /\ dispatched' = Append(dispatched, [name |-> Head(tasks).name,
                                                  data |-> Head(tasks).data])
            /\ UNCHANGED dropped
            /\ Store(IF Head(tasks).name = "progress"
                     THEN progressListener(Sub, Head(tasks).data, how)
                     ELSE completeListener(Sub, Head(tasks).data, how))
    /\ UNCHANGED <<taskId, hasOnError, reconnectWait, connects, sent, netErrors>>

\* The queued error of a dropped connection runs: unless closed, readyState
\* becomes CONNECTING and the error event is fired at eventSource.onerror.
DispatchError(how) ==
    /\ UNCHANGED otherThanSub
    /\ tasks # <<>>
    /\ Head(tasks).kind = "reestablish"
    /\ tasks' = Tail(tasks)
    /\ IF readyState = "CLOSED"
       THEN /\ dropped' = Append(dropped, Head(tasks))
            /\ UNCHANGED <<readyState, fetchActive, trace, closedBy, disposeCalls>>
       ELSE /\ Store(onerror([Sub EXCEPT !.readyState = "CONNECTING"], hasOnError, how))
            /\ UNCHANGED dropped
    /\ UNCHANGED <<taskId, hasOnError, reconnectWait, connects, dispatched, sent, netErrors>>

\* The queued failure of the connection runs: unless closed, readyState
\* becomes CLOSED and the error event is fired at eventSource.onerror.
DispatchFailure(how) ==
    /\ UNCHANGED otherThanSub
    /\ tasks # <<>>
    /\ Head(tasks).kind = "fail"
    /\ tasks' = Tail(tasks)
    /\ IF readyState = "CLOSED"
       THEN /\ dropped' = Append(dropped, Head(tasks))
            /\ UNCHANGED <<readyState, fetchActive, trace, closedBy, disposeCalls>>
       ELSE /\ Store(onerror(close(Sub, "error"), hasOnError, how))
            /\ UNCHANGED dropped
    /\ UNCHANGED <<taskId, hasOnError, reconnectWait, connects, dispatched, sent, netErrors>>

\* The reconnection timer fires after the error was dispatched: the
\* EventSource fetches the URL again only if it is still CONNECTING.
ReconnectTimer ==
    /\ UNCHANGED otherThanSub
    /\ reconnectWait
    /\ \A i \in 1..Len(tasks) : tasks[i].kind # "reestablish"
    /\ reconnectWait' = FALSE
    /\ IF readyState = "CONNECTING"
       THEN /\ fetchActive' = TRUE
            /\ connects' = Append(connects, url(taskId))
       ELSE UNCHANGED <<fetchActive, connects>>
    /\ UNCHANGED <<taskId, hasOnError, readyState, tasks, trace, dispatched, dropped,
                   closedBy, disposeCalls, sent, netErrors>>

\* The caller calls the returned cleanup function between two callbacks.
Dispose ==
    /\ UNCHANGED otherThanSub
    /\ readyState # "NONE"
    /\ disposeCalls < MaxDispose
    /\ Store(cleanup(Sub))
    /\ UNCHANGED <<taskId, hasOnError, reconnectWait, tasks, connects, dispatched,
                   dropped, sent, netErrors>>

(* ===================== the admin page (+page.svelte) ==================== *)
\* How many reindex tasks the backend accepts or has been asked for.
MaxRuns == 2

\* How many stream frames reach the admin page's subscriptions.
MaxStream == 2

Null == <<>>      \* null of a string | null variable; strings there are tuples of parts
NoTask == "null"  \* null of taskId

\* task_id of the n-th accepted startReindex request.
TaskIdOf(n) == <<"task-42", "task-43", "task-44", "task-45">>[n]

\* The ProgressEvent payloads the backend streams to the admin page.
PageEvents ==
    { [status |-> "running", total_items |-> 10, processed_items |-> 3,
       failed_items |-> 0, message |-> Null, errors |-> <<>>],
      [status |-> "completed", total_items |-> 10, processed_items |-> 10,
       failed_items |-> 1, message |-> Null,
       errors |-> << [item_id |-> "a7", error |-> "timeout"] >>],
      [status |-> "failed", total_items |-> 10, processed_items |-> 5,
       failed_items |-> 0, message |-> <<"Embedding provider unavailable">>,
       errors |-> <<>>],
      [status |-> "cancelled", total_items |-> 0, processed_items |-> 0,
       failed_items |-> 0, message |-> Null, errors |-> <<>>] }

\* lastFrame before any frame has been delivered.
NoFrame == [sub |-> 0, name |-> "none", event |-> [status |-> "none"]]

\* A percentage that is cut off instead of rounded.
RoundPercentFloor(x, y) == (100 * x) \div y

\* Math.round(x / y * 100) for 0 <= x and 0 < y.
RoundPercent(x, y) == (200 * x + y) \div (2 * y)

\* The EventSource of subscription r as the listeners of subscribeToProgress see it.
SourceOf(r) ==
    [readyState |-> r.readyState, fetchActive |-> TRUE, trace |-> <<>>,
     closedBy |-> "none", disposeCalls |-> 0]

\* $effect(() => { if (!showReindexModal && unsubscribe) ... }): the pair
\* <<unsubscribe, subs>> after the effect has run for page state p.
effect(p, u, ss) ==
    IF ~p.showReindexModal /\ u # 0
    THEN <<0, [ss EXCEPT ![u].readyState = cleanup(SourceOf(ss[u])).readyState]>>
    ELSE <<u, ss>>

openReindexModalFn(p) ==
    [p EXCEPT !.showReindexModal = TRUE, !.reindexStatus = "idle",
              !.reindexProgress = 0, !.reindexError = Null,
              !.reindexMessage = Null, !.errors = <<>>, !.taskId = NoTask,
              !.totalArticles = 0, !.processedArticles = 0]

\* closeReindexModal() once confirm() has not declined.
closeReindexModalFn(p) ==
    [p EXCEPT !.showReindexModal = FALSE, !.reindexStatus = "idle",
              !.reindexProgress = 0, !.reindexError = Null,
              !.reindexMessage = Null, !.errors = <<>>, !.taskId = NoTask,
              !.isReindexing = FALSE]

\* A handleProgress that takes a cancelled run for one still running.
handleProgressIgnoresCancelled(p, event) ==
    IF event.status = "cancelled"
    THEN [p EXCEPT !.reindexMessage = <<"Reindex was cancelled">>]
    ELSE IF event.status = "completed"
         THEN [p EXCEPT !.reindexStatus = "success", !.isReindexing = FALSE]
         ELSE IF event.status = "failed"
              THEN [p EXCEPT !.reindexStatus = "error", !.isReindexing = FALSE,
                             !.reindexError = <<"Reindex failed">>]
              ELSE p

\* handleProgress(event): the page state after the event.
handleProgress(p, event) ==
    LET p1 == IF event.total_items > 0
              THEN [p EXCEPT !.reindexProgress =
                                 RoundPercent(event.processed_items, event.total_items),
                             !.processedArticles = event.processed_items,
                             !.totalArticles = event.total_items]
              ELSE p
        p2 == [p1 EXCEPT !.reindexMessage =
                  IF event.message # Null THEN event.message
                  ELSE <<"Processed ", event.processed_items, " of ",
                         event.total_items, " articles">>]
        p3 == IF Len(event.errors) > 0 THEN [p2 EXCEPT !.errors = event.errors] ELSE p2
    IN  CASE event.status = "completed" ->
                [p3 EXCEPT !.reindexStatus = "success",
                           !.reindexMessage =
                               <<"Completed! ", event.processed_items,
                                 " articles reindexed.">>
                               \o (IF event.failed_items > 0
                                   THEN <<" (", event.failed_items, " failed)">>
                                   ELSE <<>>),
                           !.isReindexing = FALSE]
          [] event.status = "failed" ->
                [p3 EXCEPT !.reindexStatus = "error",
                           !.reindexError = IF event.message # Null THEN event.message
                                            ELSE <<"Reindex failed">>,
                           !.reindexMessage = Null,
                           !.isReindexing = FALSE]
          [] event.status = "cancelled" ->
                [p3 EXCEPT !.reindexStatus = "error",
                           !.reindexError = <<"Reindex was cancelled">>,
                           !.reindexMessage = Null,
                           !.isReindexing = FALSE]
          [] OTHER -> p3

handleSSEError(p) ==
    [p EXCEPT !.reindexStatus = "error",
              !.reindexError =
                  <<"Connection lost. The reindex may still be running on the server.">>,
              !.reindexMessage = Null,
              !.isReindexing = FALSE]

\* The auto-close timer set in page state p by the 'completed' event of run
\* (subscription) i: fresh as long as the modal has shown that run's success
\* ever since.
Timer(i, p) == [run |-> i, fresh |-> p.showReindexModal]

\* The pending timers ts once the page has become p: a timer is fresh only as
\* long as the modal stays open on the success its run reported.
Age(ts, p) ==
    [k \in DOMAIN ts |->
        [ts[k] EXCEPT !.fresh = @ /\ p.showReindexModal /\ p.reindexStatus = "success"]]

\* The pending timers ts once run i has reported success: the timers of other
\* runs no longer belong to the result shown.
Superseded(ts, i) == [k \in DOMAIN ts |-> [ts[k] EXCEPT !.fresh = @ /\ ts[k].run = i]]

PageInit ==
    /\ page = [showReindexModal |-> FALSE, isReindexing |-> FALSE,
               reindexProgress |-> 0, reindexStatus |-> "idle",
               reindexError |-> Null, reindexMessage |-> Null, taskId |-> NoTask,
               errors |-> <<>>, totalArticles |-> 0, processedArticles |-> 0]
    /\ unsubscribe = 0
    /\ subs = <<>>
    /\ starting = 0
    /\ cancelling = {}
    /\ timers = <<>>
    /\ lastFrame = NoFrame

\* openReindexModal(): the "Reindex Embeddings" card is activated.
openReindexModal ==
    /\ UNCHANGED otherThanPage
    /\ LET p == openReindexModalFn(page)
           e == effect(p, unsubscribe, subs)
       IN  /\ page' = p
           /\ unsubscribe' = e[1]
           /\ subs' = e[2]
           /\ timers' = Age(timers, p)
    /\ UNCHANGED <<starting, cancelling, lastFrame>>

\* closeReindexModal() with the answer confirm() gives when it is asked.
closeReindexModalBody(confirmed) ==
    IF page.isReindexing /\ ~confirmed
    THEN UNCHANGED <<page, unsubscribe, subs>>
    ELSE LET ss == IF unsubscribe # 0
                   THEN [subs EXCEPT ![unsubscribe].readyState =
                                         cleanup(SourceOf(subs[unsubscribe])).readyState]
                   ELSE subs
             p  == closeReindexModalFn(page)
             e  == effect(p, 0, ss)
         IN  /\ page' = p
             /\ unsubscribe' = e[1]
             /\ subs' = e[2]

\* The close button, Escape (handleKeydown), or the footer's Cancel / Close.
closeReindexModal(confirmed) ==
    /\ UNCHANGED otherThanPage
    /\ page.showReindexModal
    /\ \/ ~page.isReindexing
       \/ page.reindexStatus \in {"idle", "error", "success"}
    /\ closeReindexModalBody(confirmed)
    /\ timers' = Age(timers, page')
    /\ UNCHANGED <<starting, cancelling, lastFrame>>

\* The auto-close timer set by handleProgress fires after 3 seconds.
AutoCloseTimer(confirmed) ==
    /\ UNCHANGED otherThanPage
    /\ timers # <<>>
    /\ IF page.reindexStatus = "success"
       THEN closeReindexModalBody(confirmed)
       ELSE UNCHANGED <<page, unsubscribe, subs>>
    /\ timers' = Age(Tail(timers), page')
    /\ UNCHANGED <<starting, cancelling, lastFrame>>

\* handleReindex() up to its await: Start Reindexing or Retry.
handleReindex ==
    /\ UNCHANGED otherThanPage
    /\ page.showReindexModal
    /\ page.reindexStatus \in {"idle", "error"}
    /\ Len(subs) + starting < MaxRuns
    /\ page' = [page EXCEPT !.isReindexing = TRUE, !.reindexStatus = "running",
                            !.reindexProgress = 0, !.reindexError = Null,
                            !.reindexMessage = <<"Starting reindex...">>,
                            !.errors = <<>>]
    /\ starting' = starting + 1
    /\ timers' = Age(timers, page')
    /\ UNCHANGED <<unsubscribe, subs, cancelling, lastFrame>>

\* A handleReindex whose catch block leaves the run marked as going.
handleReindexResumesStaysBusy(ok, total) ==
    /\ UNCHANGED otherThanPage
    /\ starting > 0
    /\ starting' = starting - 1
    /\ page' = [page EXCEPT !.reindexStatus = "error",
                            !.reindexError = <<"Service unavailable">>]
    /\ timers' = Age(timers, page')
    /\ UNCHANGED <<subs, unsubscribe, cancelling, lastFrame>>

\* handleReindex() after its await: startReindex resolved (ok) or rejected.
\* The new subscription is taken from the moment its connection is open.
handleReindexResumes(ok, total) ==
    /\ UNCHANGED otherThanPage
    /\ starting > 0
    /\ starting' = starting - 1
    /\ IF ok
       THEN LET id == TaskIdOf(Len(subs) + 1)
            IN  /\ page' = [page EXCEPT !.taskId = id, !.totalArticles = total,
                                        !.reindexMessage =
                                            <<"Reindexing ", total, " articles...">>]
                /\ subs' = Append(subs, [taskId |-> id, url |-> url(id),
                                         readyState |-> "OPEN", calls |-> 0])
                /\ unsubscribe' = Len(subs) + 1
       ELSE /\ page' = [page EXCEPT !.reindexStatus = "error",
                                    !.reindexError = <<"Service unavailable">>,
                                    !.reindexMessage = Null,
                                    !.isReindexing = FALSE]
            /\ UNCHANGED <<subs, unsubscribe>>
    /\ timers' = Age(timers, page')
    /\ UNCHANGED <<cancelling, lastFrame>>

RECURSIVE CallsUpTo(_)
CallsUpTo(n) == IF n = 0 THEN 0 ELSE subs[n].calls + CallsUpTo(n - 1)

\* The frames delivered to the admin page's subscriptions so far.
Streamed == CallsUpTo(Len(subs))

\* A frame of subscription i's stream goes through the listener registered
\* for its name, which calls handleProgress as onProgress.
StreamFrame(i, name, event) ==
    /\ UNCHANGED otherThanPage
    /\ i \in 1..Len(subs)
    /\ subs[i].readyState # "CLOSED"
    /\ Streamed < MaxStream
    /\ LET data == [f \in DOMAIN event \cup {"wellFormed"} |->
                        IF f = "wellFormed" THEN TRUE ELSE event[f]]
           s    == IF name = "progress"
                   THEN progressListener(SourceOf(subs[i]), data, "return")
                   ELSE completeListener(SourceOf(subs[i]), data, "return")
           got  == Calls(s.trace, "onProgress")
       IN  /\ page' = IF got # <<>> THEN handleProgress(page, got[1].arg) ELSE page
           /\ timers' = IF got # <<>> /\ got[1].arg.status = "completed"
                        THEN Append(Superseded(timers, i), Timer(i, page'))
                        ELSE Age(timers, page')
           /\ subs' = [subs EXCEPT ![i].readyState = s.readyState,
                                   ![i].calls = @ + Len(got)]
           /\ lastFrame' = [sub |-> i, name |-> name, event |-> event]
    /\ UNCHANGED <<unsubscribe, starting, cancelling>>

\* The transport of subscription i fails: eventSource.onerror calls
\* handleSSEError as onError and closes.
StreamError(i) ==
    /\ UNCHANGED otherThanPage
    /\ i \in 1..Len(subs)
    /\ subs[i].readyState # "CLOSED"
    /\ LET s   == onerror(SourceOf(subs[i]), TRUE, "return")
           got == Calls(s.trace, "onError")
       IN  /\ page' = IF got # <<>> THEN handleSSEError(page) ELSE page
           /\ subs' = [subs EXCEPT ![i].readyState = s.readyState]
    /\ timers' = Age(timers, page')
    /\ UNCHANGED <<unsubscribe, starting, cancelling, lastFrame>>

\* The task ids handleCancel() sends a cancelReindex request for in page state p.
CancelRequests(p) == IF p.taskId # NoTask THEN {p.taskId} ELSE {}

\* handleCancel() up to its await: Cancel Operation in the running view.
handleCancel ==
    /\ UNCHANGED otherThanPage
    /\ page.showReindexModal
    /\ page.reindexStatus = "running"
    /\ cancelling' = cancelling \cup CancelRequests(page)
    /\ UNCHANGED <<page, unsubscribe, subs, starting, timers, lastFrame>>

\* A handleCancel whose answer to the cancel request ends the run.
handleCancelResumesEndsRun(id, ok) ==
    /\ UNCHANGED otherThanPage
    /\ id \in cancelling
    /\ cancelling' = cancelling \ {id}
    /\ page' = [page EXCEPT !.reindexStatus = "error", !.isReindexing = FALSE]
    /\ timers' = Age(timers, page')
    /\ UNCHANGED <<unsubscribe, subs, starting, lastFrame>>

\* handleCancel() after its await: cancelReindex resolved (ok) or rejected.
handleCancelResumes(id, ok) ==
    /\ UNCHANGED otherThanPage
    /\ id \in cancelling
    /\ cancelling' = cancelling \ {id}
    /\ page' = IF ok
               THEN [page EXCEPT !.reindexMessage = <<"Cancelling...">>]
               ELSE [page EXCEPT !.reindexError = <<"Task is not running">>]
    /\ timers' = Age(timers, page')
    /\ UNCHANGED <<unsubscribe, subs, starting, lastFrame>>

\* The page operated with the pointer: the modal's overlay covers the card,
\* so that a click reaches the card only while the modal is closed.
NextPage ==
    \/ ~page.showReindexModal /\ openReindexModal
    \/ \E confirmed \in BOOLEAN : closeReindexModal(confirmed)
    \/ \E confirmed \in BOOLEAN : AutoCloseTimer(confirmed)
    \/ handleReindex
    \/ \E ok \in BOOLEAN : handleReindexResumes(ok, 10)
    \/ \E i \in 1..MaxRuns, name \in FrameNames, event \in PageEvents :
           StreamFrame(i, name, event)
    \/ \E i \in 1..MaxRuns : StreamError(i)
    \/ handleCancel
    \/ \E id \in cancelling, ok \in BOOLEAN : handleCancelResumes(id, ok)

\* The page operated with pointer and keyboard: the card is a button that is
\* never disabled and stays in the tab order under the overlay, so that Enter
\* or Space on it calls openReindexModal() while the modal is shown too.
NextPageKeyboard ==
    \/ NextPage
    \/ page.showReindexModal /\ openReindexModal

(* ------------- handleProgress over the ProgressEvent payloads ----------- *)
\* The largest total_items of a streamed ProgressEvent.
MaxItems == 8

ProgressStatuses == {"pending", "running", "completed", "failed", "cancelled"}

\* ProgressEvent payloads: every status, total_items from 0, processed_items
\* up to and past total_items, message null, '' or a text.
ProgressEvents ==
    [status : ProgressStatuses,
     total_items : 0..MaxItems,
     processed_items : 0..MaxItems + 1,
     failed_items : {0, 1},
     message : {Null, <<"">>, <<"Embedding provider unavailable">>},
     errors : {<<>>, <<"a7">>}]

\* The page after handleReindex() started task-42 for 10 articles.
RunningPage ==
    [showReindexModal |-> TRUE, isReindexing |-> TRUE,
     reindexProgress |-> 0, reindexStatus |-> "running",
     reindexError |-> Null, reindexMessage |-> <<"Reindexing ", 10, " articles...">>,
     taskId |-> TaskIdOf(1), errors |-> <<>>, totalArticles |-> 10,
     processedArticles |-> 0]

\* Page states in which an event of the open subscription calls
\* handleProgress: the run just started, some way in, ended by an earlier
\* event, or the modal opened anew over it.
ProgressPages ==
    { RunningPage,
      handleProgress(RunningPage, CHOOSE e \in PageEvents : e.status = "running"),
      handleProgress(RunningPage, CHOOSE e \in PageEvents : e.status = "completed"),
      handleProgress(RunningPage, CHOOSE e \in PageEvents : e.status = "failed"),
      openReindexModalFn(RunningPage) }

\* One 'progress' frame of the open subscription calls handleProgress(event).
ProgressArrives(event) ==
    /\ UNCHANGED otherThanPage
    /\ lastFrame = NoFrame
    /\ page' = handleProgress(page, event)
    /\ timers' = IF event.status = "completed"
                 THEN Append(Superseded(timers, 1), Timer(1, page'))
                 ELSE Age(timers, page')
    /\ subs' = [subs EXCEPT ![1].calls = @ + 1]
    /\ lastFrame' = [sub |-> 1, name |-> "progress", event |-> event]
    /\ UNCHANGED <<unsubscribe, starting, cancelling>>

NextProgress ==
    /\ lastFrame = NoFrame
    /\ \E event \in ProgressEvents : ProgressArrives(event)

(* ================= the chat panel (ChatContainer.svelte) ================ *)
\* How many messages the user sends.
MaxSends == 2

\* How many clearChatHistory requests are awaiting their response at once.
MaxClears == 2

\* What the user types: a sequence of words, " " being white space.
Contents == { <<"q1">>, <<" ", "q2", " ">>, <<" ">> }

RECURSIVE trimStart(_)
trimStart(c) == IF c # <<>> /\ Head(c) = " " THEN trimStart(Tail(c)) ELSE c

RECURSIVE trimEnd(_)
trimEnd(c) ==
    IF c # <<>> /\ c[Len(c)] = " " THEN trimEnd(SubSeq(c, 1, Len(c) - 1)) ELSE c

\* content.trim()
trim(c) == trimEnd(trimStart(c))

\* The histories getChatHistory answers with.
Histories ==
    { <<>>,
      << [role |-> "user", content |-> <<"q0">>],
         [role |-> "assistant", content |-> <<"answer to", "q0">>] >> }

NoSend == [active |-> FALSE]

\* messages.slice(0, -1)
sliceButLast(ms) == IF ms = <<>> THEN <<>> ELSE SubSeq(ms, 1, Len(ms) - 1)

ChatInit ==
    /\ chat = [messages |-> <<>>, isLoading |-> TRUE, isSending |-> FALSE,
               error |-> Null]
    /\ loading = TRUE
    /\ sending = NoSend
    /\ clearing = 0
    /\ sendOutcome = "none"
    /\ sends = 0

\* loadHistory() after its await: getChatHistory resolved (ok) or rejected.
loadHistoryResumes(ok, history) ==
    /\ UNCHANGED otherThanChat
    /\ loading
    /\ loading' = FALSE
    /\ chat' = IF ok
               THEN [chat EXCEPT !.messages = history, !.isLoading = FALSE]
               ELSE [chat EXCEPT !.error = <<"Failed to load chat history">>,
                                 !.isLoading = FALSE]
    /\ UNCHANGED <<sending, clearing, sendOutcome, sends>>

\* A handleSendMessage that does not look at isSending.
handleSendMessageWhileSending(content) ==
    /\ UNCHANGED otherThanChat
    /\ sends < MaxSends
    /\ IF trim(content) = <<>>
       THEN UNCHANGED <<chat, sending, sendOutcome, sends>>
       ELSE LET userMessage == [role |-> "user", content |-> trim(content)]
            IN  /\ chat' = [chat EXCEPT !.isSending = TRUE, !.error = Null,
                                        !.messages = Append(@, userMessage)]
                /\ sending' = [active |-> TRUE, content |-> content,
                               base |-> chat.messages, userMessage |-> userMessage,
                               cleared |-> FALSE]
                /\ sendOutcome' = "none"
                /\ sends' = sends + 1
    /\ UNCHANGED <<loading, clearing>>

\* handleSendMessage(content) up to its await.
handleSendMessage(content) ==
    /\ UNCHANGED otherThanChat
    /\ sends < MaxSends
    /\ IF trim(content) = <<>> \/ chat.isSending
       THEN UNCHANGED <<chat, sending, sendOutcome, sends>>
       ELSE LET userMessage == [role |-> "user", content |-> trim(content)]
            IN  /\ chat' = [chat EXCEPT !.isSending = TRUE, !.error = Null,
                                        !.messages = Append(@, userMessage)]
                /\ sending' = [active |-> TRUE, content |-> content,
                               base |-> chat.messages, userMessage |-> userMessage,
                               cleared |-> FALSE]
                /\ sendOutcome' = "none"
                /\ sends' = sends + 1
    /\ UNCHANGED <<loading, clearing>>

\* A handleSendMessage whose failure branch keeps the optimistic user
\* message.
handleSendMessageKeepsOptimistic(c, ok, content) ==
    IF ok
    THEN [c EXCEPT !.messages = Append(@, [role |-> "assistant",
                                           content |-> <<"answer to">> \o trim(content)]),
                   !.isSending = FALSE]
    ELSE [c EXCEPT !.error = <<"Failed to send message">>,
                   !.isSending = FALSE]

\* What handleSendMessage does to the $state variables once sendMessage has
\* resolved (ok) or rejected.
handleSendMessageResumesFn(c, ok, content) ==
    IF ok
    THEN [c EXCEPT !.messages = Append(@, [role |-> "assistant",
                                           content |-> <<"answer to">> \o trim(content)]),
                   !.isSending = FALSE]
    ELSE [c EXCEPT !.error = <<"Failed to send message">>,
                   !.messages = sliceButLast(@),
                   !.isSending = FALSE]

\* handleSendMessage(content) after its await.
handleSendMessageResumes(ok) ==
    /\ UNCHANGED otherThanChat
    /\ sending.active
    /\ chat' = handleSendMessageResumesFn(chat, ok, sending.content)
    /\ sending' = NoSend
    /\ sendOutcome' = IF ok THEN "ok" ELSE "failed"
    /\ UNCHANGED <<loading, clearing, sends>>

\* handleClearHistory() up to its await, with confirm()'s answer; the Clear
\* History button is shown while messages is not empty.
handleClearHistory(confirmed) ==
    /\ UNCHANGED otherThanChat
    /\ chat.messages # <<>>
    /\ clearing < MaxClears
    /\ clearing' = IF confirmed THEN clearing + 1 ELSE clearing
    /\ UNCHANGED <<chat, loading, sending, sendOutcome, sends>>

\* handleClearHistory() after its await: clearChatHistory resolved (ok) or
\* rejected.
handleClearHistoryResumes(ok) ==
    /\ UNCHANGED otherThanChat
    /\ clearing > 0
    /\ clearing' = clearing - 1
    /\ chat' = IF ok
               THEN [chat EXCEPT !.messages = <<>>]
               ELSE [chat EXCEPT !.error = <<"Failed to clear history">>]
    /\ sending' = IF ok /\ sending.active THEN [sending EXCEPT !.cleared = TRUE]
                  ELSE sending
    /\ UNCHANGED <<loading, sendOutcome, sends>>

\* The Dismiss button of the error banner.
DismissError ==
    /\ UNCHANGED otherThanChat
    /\ chat.error # Null
    /\ chat' = [chat EXCEPT !.error = Null]
    /\ UNCHANGED <<loading, sending, clearing, sendOutcome, sends>>

\* The chat panel with a ChatInput that calls onSend only while it is not
\* disabled, that is while neither isSending nor isLoading.
NextChat ==
    \/ \E ok \in BOOLEAN, history \in Histories : loadHistoryResumes(ok, history)
    \/ \E content \in Contents :
           ~(chat.isSending \/ chat.isLoading) /\ handleSendMessage(content)
    \/ \E ok \in BOOLEAN : handleSendMessageResumes(ok)
    \/ \E confirmed \in BOOLEAN : handleClearHistory(confirmed)
    \/ \E ok \in BOOLEAN : handleClearHistoryResumes(ok)
    \/ DismissError

\* The chat panel whose handleSendMessage is called at any time, whatever
\* the input component makes of its disabled property.
NextChatAnyCall ==
    \/ NextChat
    \/ \E content \in Contents :
           (chat.isSending \/ chat.isLoading) /\ handleSendMessage(content)

(* ======================= ApiClient.fetch (client.ts) ==================== *)
\* JSON values as response.json() yields them; an object keeps its members
\* in order, a number is kept as its text.
JNull == [t |-> "null"]
JUndefined == [t |-> "undefined"]
JStr(s) == [t |-> "string", s |-> s]
JNum(s) == [t |-> "number", s |-> s]
JArr(items) == [t |-> "array", items |-> items]
JObj(members) == [t |-> "object", members |-> members]
Member(k, v) == [k |-> k, v |-> v]

\* typeof v === 'object' (true of null and of arrays)
TypeofObject(v) == v.t \in {"object", "array", "null"}

\* The truthiness of v: null, undefined, '' and 0 are falsy.
Truthy(v) ==
    ~(\/ v.t \in {"null", "undefined"}
      \/ (v.t = "string" /\ v.s = "")
      \/ (v.t = "number" /\ v.s = "0"))

\* 'k' in v, for v an object or an array.
In(k, v) == v.t = "object" /\ \E n \in 1..Len(v.members) : v.members[n].k = k

\* v.k (v[k]): undefined when v has no such member.
Get(v, k) ==
    IF In(k, v)
    THEN v.members[CHOOSE n \in 1..Len(v.members) : v.members[n].k = k].v
    ELSE JUndefined

\* JSON.stringify(v) as the sequence of the text's pieces.
RECURSIVE JSONStringify(_)
RECURSIVE StringifyMembers(_)
RECURSIVE StringifyItems(_)
StringifyMembers(ms) ==
    IF ms = <<>> THEN <<>>
    ELSE <<"\"", ms[1].k, "\"", ":">> \o JSONStringify(ms[1].v)
         \o (IF Len(ms) > 1 THEN <<",">> ELSE <<>>) \o StringifyMembers(Tail(ms))
StringifyItems(vs) ==
    IF vs = <<>> THEN <<>>
    ELSE JSONStringify(vs[1])
         \o (IF Len(vs) > 1 THEN <<",">> ELSE <<>>) \o StringifyItems(Tail(vs))
JSONStringify(v) ==
    CASE v.t = "string" -> <<"\"", v.s, "\"">>
      [] v.t = "number" -> <<v.s>>
      [] v.t = "null"   -> <<"null">>
      [] v.t = "array"  -> <<"[">> \o StringifyItems(v.items) \o <<"]">>
      [] v.t = "object" -> <<"{">> \o StringifyMembers(v.members) \o <<"}">>

\* An extractErrorMessage that looks at the FastAPI detail first.
extractErrorMessageDetailFirst(errorData) ==
    IF Truthy(errorData) /\ TypeofObject(errorData) /\ In("detail", errorData)
       /\ Get(errorData, "detail").t = "string"
    THEN <<Get(errorData, "detail").s>>
    ELSE IF /\ Truthy(errorData) /\ TypeofObject(errorData) /\ In("error", errorData)
            /\ Truthy(Get(errorData, "error"))
            /\ TypeofObject(Get(errorData, "error"))
            /\ In("message", Get(errorData, "error"))
            /\ Get(Get(errorData, "error"), "message").t = "string"
    THEN <<Get(Get(errorData, "error"), "message").s>>
    ELSE <<"API request failed">>

\* extractErrorMessage(errorData): the message as the sequence of its pieces.
extractErrorMessage(errorData) ==
    IF /\ Truthy(errorData) /\ TypeofObject(errorData) /\ In("error", errorData)
       /\ Truthy(Get(errorData, "error"))
       /\ TypeofObject(Get(errorData, "error"))
       /\ In("message", Get(errorData, "error"))
       /\ Get(Get(errorData, "error"), "message").t = "string"
    THEN <<Get(Get(errorData, "error"), "message").s>>
    ELSE IF Truthy(errorData) /\ TypeofObject(errorData) /\ In("detail", errorData)
    THEN LET detail == Get(errorData, "detail")
         IN  IF detail.t = "string" THEN <<detail.s>>
             ELSE IF TypeofObject(detail) /\ detail.t # "null"
             THEN JSONStringify(detail)
             ELSE <<"API request failed">>
    ELSE <<"API request failed">>

\* response.ok
Ok(r) == r.status \in 200..299

\* ApiClient.fetch once fetch() has resolved with response r: what it
\* returns or throws, and what it logs with console.error. The promise of
\* `return response.json()` is not awaited inside the try block, so its
\* rejection passes by the catch block.
ApiClientFetch(r) ==
    IF ~Ok(r)
    THEN LET errorMessage ==
                 IF r.parses THEN extractErrorMessage(r.body)
                 ELSE IF r.statusText # "" THEN <<r.statusText>>
                 ELSE <<"API request failed">>
         IN  [threw |-> TRUE, message |-> errorMessage,
              logs |-> << <<"API request failed:", errorMessage>> >>]
    ELSE IF r.parses
    THEN [threw |-> FALSE, value |-> r.body, logs |-> <<>>]
    ELSE [threw |-> TRUE, message |-> <<"SyntaxError">>, logs |-> <<>>]

\* The values of an error member, of a message member and of a detail member.
ErrorMessages == {JUndefined, JNull, JNum("5"), JStr(""), JStr("Database connection failed")}

Errors ==
    {JUndefined, JNull, JStr("oops"), JArr(<<>>)}
    \cup {JObj(<<Member("code", JStr("INTERNAL_ERROR"))>>
               \o (IF m = JUndefined THEN <<>> ELSE <<Member("message", m)>>)) :
          m \in ErrorMessages}

Details ==
    {JUndefined, JNull, JNum("7"), JStr("Test error"), JStr(""),
     JArr(<<JStr("loc"), JNum("1")>>),
     JObj(<<Member("field", JStr("email")),
            Member("error", JStr("Invalid email format"))>>)}

\* The bodies of the responses.
Bodies ==
    {JNull, JStr("Bad Gateway"), JNum("0"), JArr(<<>>)}
    \cup {JObj((IF e = JUndefined THEN <<>> ELSE <<Member("error", e)>>)
               \o (IF d = JUndefined THEN <<>> ELSE <<Member("detail", d)>>)) :
          e \in Errors, d \in Details}

HttpStatuses == {200, 204, 404, 500}

StatusTexts == {"", "Internal Server Error"}

\* The responses fetch() resolves with; parses tells whether response.json()
\* resolves (with body) or rejects.
Responses ==
    [status : HttpStatuses, statusText : StatusTexts, parses : {TRUE},
     body : Bodies]
    \cup [status : HttpStatuses, statusText : StatusTexts, parses : {FALSE},
          body : {JUndefined}]

NoResponse == [status |-> 0]
NoOutcome == [threw |-> FALSE, value |-> JUndefined, logs |-> <<>>]

\* { ...a, ...b }: the members of a, then those of b, a later one winning.
Spread(a, b) ==
    [k \in DOMAIN a \cup DOMAIN b |-> IF k \in DOMAIN b THEN b[k] ELSE a[k]]

\* {}, and what spreading undefined contributes.
EmptyObject == [k \in {} |-> ""]

\* The headers a caller of ApiClient.fetch passes in options.
CallerHeaders ==
    { EmptyObject,
      "Authorization" :> "Bearer token",
      "Content-Type" :> "text/plain",
      ("Authorization" :> "Bearer token") @@ ("Content-Type" :> "text/plain") }

\* The options a caller of ApiClient.fetch passes; EmptyObject stands for
\* options left out as well.
CallerOptions ==
    {EmptyObject, "method" :> "PUT"}
    \cup {"headers" :> h : h \in CallerHeaders}
    \cup {("method" :> "PUT") @@ ("headers" :> h) : h \in CallerHeaders \ {EmptyObject}}

\* The data posted or patched.
Payloads == {JObj(<<>>), JObj(<<Member("name", JStr("Test"))>>)}

Endpoints == {"/test"}

\* The calls of the ApiClient methods.
ApiCalls ==
    [helper : {"get", "delete"}, endpoint : Endpoints]
    \cup [helper : {"post", "patch"}, endpoint : Endpoints, data : Payloads]
    \cup [helper : {"fetch"}, endpoint : Endpoints, options : CallerOptions]

\* The options with which get, post, patch and delete call this.fetch.
OptionsOf(c) ==
    CASE c.helper = "get"    -> "method" :> "GET"
      [] c.helper = "post"   -> ("method" :> "POST") @@ ("body" :> JSONStringify(c.data))
      [] c.helper = "patch"  -> ("method" :> "PATCH") @@ ("body" :> JSONStringify(c.data))
      [] c.helper = "delete" -> "method" :> "DELETE"
      [] c.helper = "fetch"  -> c.options

\* A request construction that puts the default header last.
fetchArgumentsDefaultWins(baseUrl, endpoint, options) ==
    [url  |-> <<baseUrl, endpoint>>,
     init |-> Spread(options,
                     "headers" :>
                         Spread(IF "headers" \in DOMAIN options
                                THEN options["headers"] ELSE EmptyObject,
                                "Content-Type" :> "application/json"))]

\* The arguments of the fetch() call in ApiClient.fetch(endpoint, options).
fetchArguments(baseUrl, endpoint, options) ==
    [url  |-> <<baseUrl, endpoint>>,
     init |-> Spread(options,
                     "headers" :>
                         Spread("Content-Type" :> "application/json",
                                IF "headers" \in DOMAIN options
                                THEN options["headers"] ELSE EmptyObject))]

NoCall == [helper |-> "none"]

\* An ApiClient call has issued its fetch() and awaits it.
Pending == issued # <<>> /\ outcome = NoOutcome /\ response = NoResponse

ApiInit ==
    /\ response = NoResponse
    /\ outcome = NoOutcome
    /\ call = NoCall
    /\ issued = <<>>

\* A call of get, post, patch, delete or fetch on apiClient, up to the
\* await of fetch().
ApiCall(c) ==
    /\ UNCHANGED otherThanApi
    /\ ~Pending
    /\ call' = c
    /\ issued' = <<fetchArguments(API_BASE_URL, c.endpoint, OptionsOf(c))>>
    /\ response' = NoResponse
    /\ outcome' = NoOutcome

\* apiClient.fetch(endpoint, options) when fetch() resolves with r.
Fetch(r) ==
    /\ UNCHANGED otherThanApi
    /\ Pending
    /\ response' = r
    /\ outcome' = ApiClientFetch(r)
    /\ UNCHANGED <<call, issued>>

\* apiClient.fetch(endpoint, options) when fetch() rejects (no response).
FetchRejects ==
    /\ UNCHANGED otherThanApi
    /\ Pending
    /\ response' = NoResponse
    /\ outcome' = [threw |-> TRUE, message |-> <<"Failed to fetch">>,
                   logs |-> << <<"API request failed:", <<"Failed to fetch">>>> >>]
    /\ UNCHANGED <<call, issued>>

NextApi ==
    \/ \E c \in ApiCalls : ApiCall(c)
    \/ \E r \in Responses : Fetch(r)
    \/ FetchRejects

Init == SubInit /\ PageInit /\ ChatInit /\ ApiInit

SpecPage == Init /\ [][NextPage]_pageVars

\* handleProgress is about to be called on one of ProgressPages.
ProgressInit ==
    /\ SubInit /\ ChatInit /\ ApiInit
    /\ page \in ProgressPages
    /\ unsubscribe = 1
    /\ subs = <<[taskId |-> TaskIdOf(1), url |-> url(TaskIdOf(1)),
                 readyState |-> "OPEN", calls |-> 0]>>
    /\ starting = 0
    /\ cancelling = {}
    /\ timers = <<>>
    /\ lastFrame = NoFrame

SpecPageKeyboard == Init /\ [][NextPageKeyboard]_pageVars

SpecProgress == ProgressInit /\ [][NextProgress]_pageVars

SpecChat == Init /\ [][NextChat]_chatVars

SpecChatAnyCall == Init /\ [][NextChatAnyCall]_chatVars

SpecApi == Init /\ [][NextApi]_apiVars

Next ==
    \/ \E t \in TaskIds, supplied \in BOOLEAN : subscribeToProgress(t, supplied)
    \/ AnnounceConnection
    \/ \E name \in FrameNames : \E data \in FrameData(sent + 1) : FrameArrives(name, data)
    \/ ConnectionLost
    \/ HandshakeFails
    \/ \E how \in CallbackBehaviours : DispatchMessage(how)
    \/ \E how \in CallbackBehaviours : DispatchError(how)
    \/ \E how \in CallbackBehaviours : DispatchFailure(how)
    \/ ReconnectTimer
    \/ Dispose

Spec == Init /\ [][Next]_vars

(* ------------------------ derived observations ------------------------- *)

Args(entries) == [i \in 1..Len(entries) |-> entries[i].arg]

IsCallback(e) == e.op \in {"onProgress", "onError"}

WellFormedFrames(frames) == SelectSeq(frames, LAMBDA f : f.data.wellFormed)

Decoded(frames) ==
    [i \in 1..Len(WellFormedFrames(frames)) |-> JSONParse(WellFormedFrames(frames)[i].data).value]

Last(q) == q[Len(q)]

\* This step dispatched a frame to its listener.
FrameDispatched == Len(dispatched') = Len(dispatched) + 1

\* No exception left the 'progress' or the 'complete' listener.
NoListenerEscape ==
    \A i \in 1..Len(trace) : trace[i].op = "uncaught" => trace[i].arg = "onerror"

\* Nothing but the frames themselves can have ended the subscription so far.
OnlyFrames == disposeCalls = 0 /\ netErrors = 0

(* ------------------------------ C1 ------------------------------------- *)
\* C1: every well-formed frame dispatched at the open subscription is passed to
\* onProgress exactly once, in arrival order: the arguments of the onProgress
\* calls are, in order, the decoded events of the well-formed frames dispatched.
C1_OncePerFrameInOrder ==
    Args(Calls(trace, "onProgress")) = Decoded(dispatched)

\* Three well-formed 'progress' frames were dispatched and delivered.
C1_Witness ==
    /\ Len(dispatched) = 3
    /\ \A i \in 1..3 : dispatched[i].name = "progress" /\ dispatched[i].data.wellFormed
    /\ Len(Calls(trace, "onProgress")) = 3

(* ------------------------------ C2 ------------------------------------- *)
\* C2 as stated: once a well-formed frame with a terminal status was
\* dispatched, whatever its name, the connection is closed.
C2_TerminalStatusCloses ==
    \A i \in 1..Len(dispatched) :
        (dispatched[i].data.wellFormed /\ dispatched[i].data.status \in TerminalStatuses)
            => readyState = "CLOSED"

\* C2 amended: the subscription closes on the 'complete' frame, not on the
\* status.  After a 'complete' frame was dispatched the connection is closed,
\* and when the frame was well-formed its event was passed to onProgress
\* before the connection closed; the dispatch of a 'progress' frame, terminal
\* status or not, leaves readyState as it was unless the callback itself
\* called the cleanup function.
C2_CompleteFrameCloses ==
    /\ [](\A i \in 1..Len(dispatched) :
            dispatched[i].name = "complete" =>
                /\ readyState = "CLOSED"
                /\ dispatched[i].data.wellFormed =>
                      \E j, k \in 1..Len(trace) :
                          /\ j < k
                          /\ trace[j] = [op |-> "onProgress",
                                         arg |-> JSONParse(dispatched[i].data).value]
                          /\ trace[k].op = "close")
    /\ [][(FrameDispatched /\ Last(dispatched').name = "progress"
              /\ disposeCalls' = disposeCalls)
            => /\ readyState' = readyState
               /\ Last(dispatched').data.wellFormed =>
                     Calls(trace', "onProgress") =
                         Append(Calls(trace, "onProgress"),
                                [op |-> "onProgress",
                                 arg |-> JSONParse(Last(dispatched').data).value])]_vars

\* A well-formed 'complete' frame with a terminal status closed the
\* subscription by itself, and a terminal status in a 'progress' frame was
\* delivered without closing it.
C2_Witness ==
    /\ Len(dispatched) = 2
    /\ dispatched[1].name = "progress" /\ dispatched[1].data.wellFormed
    /\ dispatched[1].data.status \in TerminalStatuses
    /\ dispatched[2].name = "complete" /\ dispatched[2].data.wellFormed
    /\ dispatched[2].data.status \in TerminalStatuses
    /\ Len(Calls(trace, "onProgress")) = 2
    /\ closedBy = "complete"
    /\ disposeCalls = 0

(* ------------------------------ C3 ------------------------------------- *)
\* C3 as stated: a malformed frame of either name causes no onProgress call
\* and no escaping exception, and the valid frames around it are all
\* delivered: as long as no well-formed 'complete' frame, no transport error
\* and no disposal ended the subscription, no arriving frame is discarded.
C3_MalformedFrameSkipped ==
    /\ C1_OncePerFrameInOrder
    /\ NoListenerEscape
    /\ (OnlyFrames /\ \A i \in 1..Len(dispatched) :
                          dispatched[i].name = "complete" => ~dispatched[i].data.wellFormed)
          => \A i \in 1..Len(dropped) :
                 dropped[i].kind = "message" => ~dropped[i].data.wellFormed

\* C3 amended: a malformed frame causes no onProgress call and no escaping
\* exception; around a malformed 'progress' frame the valid frames are all
\* delivered in order (as long as no 'complete' frame, transport error or
\* disposal ended the subscription it stays open and discards nothing), while
\* a malformed 'complete' frame closes the connection, so that no frame
\* after it is delivered.
C3_MalformedProgressSkipped ==
    /\ Args(Calls(trace, "onProgress")) = Decoded(dispatched)
    /\ NoListenerEscape
    /\ (OnlyFrames /\ \A i \in 1..Len(dispatched) : dispatched[i].name = "progress")
          => (dropped = <<>> /\ readyState # "CLOSED")
    /\ \A i \in 1..Len(dispatched) :
          (dispatched[i].name = "complete" /\ ~dispatched[i].data.wellFormed)
              => (i = Len(dispatched) /\ readyState = "CLOSED")

\* A valid frame, a malformed 'progress' frame and a valid frame were
\* dispatched: two onProgress calls, one logged parse failure.
C3_Witness ==
    /\ Len(dispatched) = 3
    /\ dispatched[1].data.wellFormed
    /\ dispatched[2].name = "progress" /\ ~dispatched[2].data.wellFormed
    /\ dispatched[3].data.wellFormed
    /\ Len(Calls(trace, "onProgress")) = 2
    /\ Len(Calls(trace, "console.error")) = 1

(* ------------------------------ C4 ------------------------------------- *)
\* C4 as stated: the dispatch of a malformed frame, whatever its name,
\* leaves the connection and the state of the subscription as they were.
C4_MalformedNeverCloses ==
    [][(FrameDispatched /\ ~Last(dispatched').data.wellFormed)
          => UNCHANGED <<readyState, fetchActive, closedBy>>]_vars

\* C4 amended: the dispatch of a malformed 'progress' frame leaves the
\* connection and the state of the subscription as they were and only logs;
\* the dispatch of a malformed 'complete' frame logs, calls no callback and
\* closes the connection.
C4_MalformedProgressNeverCloses ==
    [][(FrameDispatched /\ ~Last(dispatched').data.wellFormed)
          => IF Last(dispatched').name = "progress"
             THEN /\ UNCHANGED <<readyState, fetchActive, closedBy, disposeCalls>>
                  /\ trace' = Append(trace, [op |-> "console.error",
                                             arg |-> "Failed to parse progress event:"])
             ELSE /\ readyState' = "CLOSED"
                  /\ closedBy' = "complete"
                  /\ Calls(trace', "onProgress") = Calls(trace, "onProgress")]_vars

\* A malformed 'progress' frame was dispatched and the connection is open.
C4_Witness ==
    /\ dispatched # <<>>
    /\ Last(dispatched).name = "progress"
    /\ ~Last(dispatched).data.wellFormed
    /\ readyState = "OPEN"
    /\ Last(trace).op = "console.error"

(* ------------------------------ C5 ------------------------------------- *)
\* The transport errors fired at eventSource.onerror so far.
ErrorsFired ==
    Len(SelectSeq(trace, LAMBDA e : e.op = "console.error" /\ e.arg = "SSE connection error:"))

\* C5: once a transport error was fired at the subscription, onError (if
\* supplied) has been called exactly once in its whole lifetime and the
\* connection is closed; onError is never called without a transport error,
\* and an error before any frame leaves onProgress uncalled.
C5_ErrorOnceThenClosed ==
    /\ ErrorsFired = 0 => Len(Calls(trace, "onError")) = 0
    /\ ErrorsFired > 0 =>
          /\ Len(Calls(trace, "onError")) = (IF hasOnError THEN 1 ELSE 0)
          /\ readyState = "CLOSED"
          /\ dispatched = <<>> => Len(Calls(trace, "onProgress")) = 0

(* ------------------------------ C6 ------------------------------------- *)
\* C6: once the cleanup function has been called, no step invokes onProgress
\* or onError, whatever frame or error is dispatched afterwards.
C6_NoCallbackAfterDispose ==
    [][disposeCalls > 0 => SelectSeq(trace', IsCallback) = SelectSeq(trace, IsCallback)]_vars

\* The caller disposed before anything was dispatched, while a frame and a
\* transport error were in flight: both were discarded and no callback ran.
C6_Witness ==
    /\ closedBy = "dispose"
    /\ \E i \in 1..Len(dropped) : dropped[i].kind = "message" /\ dropped[i].data.wellFormed
    /\ \E i \in 1..Len(dropped) : dropped[i].kind = "reestablish"
    /\ SelectSeq(trace, IsCallback) = <<>>

(* ------------------------------ C7 ------------------------------------- *)
\* C7: every call of the cleanup function leaves the connection closed and
\* raises nothing, and a call on a subscription that is already closed (by an
\* earlier call, by a 'complete' frame or by a transport error) changes
\* nothing but the count of calls.
C7_DisposeIdempotent ==
    [][disposeCalls' # disposeCalls =>
          /\ readyState' = "CLOSED"
          /\ ~fetchActive'
          /\ Calls(trace', "uncaught") = Calls(trace, "uncaught")
          /\ readyState = "CLOSED" =>
                UNCHANGED <<taskId, hasOnError, readyState, fetchActive, reconnectWait,
                            tasks, connects, trace, dispatched, dropped, closedBy>>]_vars

\* The cleanup function was called twice after a 'complete' frame had closed
\* the subscription.
C7_Witness ==
    /\ disposeCalls >= 2
    /\ closedBy = "complete"
    /\ readyState = "CLOSED"

(* ------------------------------ C8 ------------------------------------- *)
\* C8: the subscription is idle, open (connecting or connected) or closed by
\* exactly one of 'complete' frame, transport error and disposal; each of the
\* three closes it when it happens; and a closed subscription never changes
\* state or delivers anything again.
C8_ClosedAbsorbing ==
    /\ [](/\ readyState \in {"NONE", "CONNECTING", "OPEN", "CLOSED"}
          /\ (readyState = "CLOSED") = (closedBy \in {"complete", "error", "dispose"})
          /\ (readyState # "CLOSED") = (closedBy = "none")
          /\ (\/ \E i \in 1..Len(dispatched) : dispatched[i].name = "complete"
              \/ ErrorsFired > 0
              \/ disposeCalls > 0) => readyState = "CLOSED")
    /\ [][readyState = "CLOSED" =>
            /\ readyState' = "CLOSED"
            /\ UNCHANGED <<closedBy, trace, connects, fetchActive>>]_vars

(* ------------------------------ C9 ------------------------------------- *)
\* C9: from the call of subscribeToProgress on, the subscription has started
\* exactly one fetch, of the progress URL of its task id.
C9_OneConnection ==
    readyState # "NONE" => connects = <<url(taskId)>>

(* ------------------------------ C10 ------------------------------------ *)
\* This step ran a callback that called the cleanup function.
ReentrantDispose ==
    /\ disposeCalls' = disposeCalls + 1
    /\ SelectSeq(trace', IsCallback) # SelectSeq(trace, IsCallback)

\* C10: a step in which a running callback calls the cleanup function leaves
\* the connection closed, adds that one callback call and, after it, nothing
\* but the closing of the connection (no error is raised or logged); and once
\* the cleanup function was called, from inside a callback or between two
\* callbacks, no later step calls a callback.
C10_ReentrantDisposeSafe ==
    [][/\ ReentrantDispose =>
            /\ readyState' = "CLOSED"
            /\ ~fetchActive'
            /\ Len(SelectSeq(trace', IsCallback)) = Len(SelectSeq(trace, IsCallback)) + 1
            /\ \E k \in Len(trace) + 1 .. Len(trace') :
                  /\ IsCallback(trace'[k])
                  /\ \A j \in k + 1 .. Len(trace') : trace'[j] = [op |-> "close", arg |-> "dispose"]
       /\ disposeCalls > 0 =>
            /\ SelectSeq(trace', IsCallback) = SelectSeq(trace, IsCallback)
            /\ readyState' = "CLOSED"]_vars

\* onProgress called the cleanup function while it ran; a frame that was in
\* flight behind it was then discarded.
C10_Witness ==
    /\ \E k \in 1..Len(trace) - 1 :
          /\ trace[k].op = "onProgress"
          /\ trace[k + 1] = [op |-> "close", arg |-> "dispose"]
          /\ k + 1 = Len(trace)
    /\ \E i \in 1..Len(dropped) : dropped[i].kind = "message"
    /\ disposeCalls = 1

(* ------------------------- the admin page's claims ---------------------- *)
\* The subscriptions opened by the admin page whose connection is not closed.
OpenSubs == {i \in 1..Len(subs) : subs[i].readyState # "CLOSED"}

\* C11: whenever the reindex modal is not shown (showReindexModal is false),
\* no subscription the admin page has opened still has an open connection.
C11_ClosedModalHasNoOpenSubscription ==
    ~page.showReindexModal => OpenSubs = {}

\* C12: at most one subscription created by handleReindex is open at any
\* time, and while one is open the page's unsubscribe refers to it.
C12_AtMostOneOpenSubscription ==
    /\ Cardinality(OpenSubs) <= 1
    /\ \A i \in OpenSubs : unsubscribe = i

\* The two events of the scenario for task-42.
ScenarioRunning ==
    [status |-> "running", total_items |-> 10, processed_items |-> 3,
     failed_items |-> 0, message |-> Null, errors |-> <<>>]

ScenarioCompleted ==
    [status |-> "completed", total_items |-> 10, processed_items |-> 10,
     failed_items |-> 1, message |-> Null,
     errors |-> << [item_id |-> "a7", error |-> "timeout"] >>]

\* Subscription i has received the running event as its only frame and the
\* step delivers the completed event to it in a frame of one of the names.
ScenarioSecondFrame(i, names) ==
    /\ subs[i].calls = 1
    /\ lastFrame.sub = i
    /\ lastFrame.event = ScenarioRunning
    /\ lastFrame'.sub = i
    /\ lastFrame'.event = ScenarioCompleted
    /\ lastFrame'.name \in names

\* What the scenario expects after the second event.
ScenarioOutcome(i) ==
    /\ subs'[i].calls = 2
    /\ subs'[i].readyState = "CLOSED"
    /\ page'.processedArticles = 10
    /\ page'.totalArticles = 10
    /\ page'.reindexProgress = 100
    /\ page'.reindexStatus = "success"
    /\ page'.errors = << [item_id |-> "a7", error |-> "timeout"] >>

\* C13 as stated: when task-42's stream emits the running event (3 of 10)
\* and then the completed event (10 of 10, 1 failed, error a7/timeout),
\* whatever frames carry them, onProgress has been called exactly twice,
\* the connection is closed after the second call, and the page shows 10 of
\* 10, progress 100, status success and exactly the one error a7.
C13_ScenarioAnyFrame ==
    [][\A i \in 1..Len(subs) :
           ScenarioSecondFrame(i, FrameNames) => ScenarioOutcome(i)]_pageVars

\* C13 (amended): the same, when the completed event is carried by a
\* 'complete' frame.
C13_ScenarioCompleteFrame ==
    [][\A i \in 1..Len(subs) :
           ScenarioSecondFrame(i, {"complete"}) => ScenarioOutcome(i)]_pageVars

C13_Witness ==
    \E i \in 1..Len(subs) :
        /\ subs[i].taskId = "task-42"
        /\ subs[i].calls = 2
        /\ subs[i].readyState = "CLOSED"
        /\ lastFrame = [sub |-> i, name |-> "complete", event |-> ScenarioCompleted]
        /\ page.reindexStatus = "success"
        /\ page.processedArticles = 10

\* C14: after handleProgress has processed an event, the page's errors list
\* equals that event's errors list, also when that list is empty.
C14_ErrorsReplacedBySnapshot ==
    [][lastFrame' # lastFrame => page'.errors = lastFrame'.event.errors]_pageVars

\* C15: in every state where the page shows the running view, handleCancel
\* sends a cancel request for the task of the run.
C15_CancelAlwaysRequests ==
    (page.showReindexModal /\ page.reindexStatus = "running")
        => CancelRequests(page) # {}

\* handleCancel has been invoked with a task id and its request is pending
\* or has been answered (the answer is still displayed).
CancelRequested ==
    \/ cancelling # {}
    \/ page.reindexMessage = <<"Cancelling...">>
    \/ page.reindexError = <<"Task is not running">>

\* C16: handleCancel, whether its cancel request succeeds or fails, leaves
\* the subscriptions as they are and reindexStatus and isReindexing
\* unchanged, and an event arriving after it is still passed to
\* handleProgress.
C16_CancelLeavesSubscriptionAndStatus ==
    [][/\ cancelling' # cancelling =>
              /\ subs' = subs
              /\ unsubscribe' = unsubscribe
              /\ page'.reindexStatus = page.reindexStatus
              /\ page'.isReindexing = page.isReindexing
       /\ (CancelRequested /\ lastFrame' # lastFrame) =>
              /\ subs'[lastFrame'.sub].calls = subs[lastFrame'.sub].calls + 1
              /\ page' = handleProgress(page, lastFrame'.event)]_pageVars

\* A cancel request is pending and the cancelled event has been processed.
C16_Witness ==
    /\ cancelling # {}
    /\ lastFrame.event.status = "cancelled"
    /\ page.reindexError = <<"Reindex was cancelled">>
    /\ OpenSubs # {}

\* C17: once handleProgress has processed an event with a terminal status,
\* no later event of the same subscription changes reindexStatus,
\* reindexError or isReindexing.
C17_TerminalOutcomeIsFinal ==
    [][(/\ lastFrame.event.status \in TerminalStatuses
        /\ lastFrame' # lastFrame
        /\ lastFrame'.sub = lastFrame.sub) =>
           /\ page'.reindexStatus = page.reindexStatus
           /\ page'.reindexError = page.reindexError
           /\ page'.isReindexing = page.isReindexing]_pageVars

(* ------------------------- the chat panel's claims ---------------------- *)
\* The step in which handleSendMessage finishes after sendMessage failed.
SendFails == sending.active /\ ~sending'.active /\ sendOutcome' = "failed"

\* C18 as stated: if sendMessage fails, then when handleSendMessage has
\* finished, messages is the list as it was before the optimistic user
\* message was appended, error is the failure's message and isSending is
\* false.
C18_RollbackRestoresList ==
    [][SendFails =>
           /\ chat'.messages = sending.base
           /\ chat'.error = <<"Failed to send message">>
           /\ ~chat'.isSending]_chatVars

\* C18 (amended): the same, except that when handleClearHistory has emptied
\* the list while the send was pending, messages stays empty.
C18_RollbackUnlessCleared ==
    [][SendFails =>
           /\ chat'.messages = IF sending.cleared THEN <<>> ELSE sending.base
           /\ chat'.error = <<"Failed to send message">>
           /\ ~chat'.isSending]_chatVars

\* A failed send has been rolled back to a list that is not empty.
C18_Witness ==
    /\ sendOutcome = "failed"
    /\ ~chat.isSending
    /\ chat.error = <<"Failed to send message">>
    /\ chat.messages \in Histories \ {<<>>}

\* C19: whatever handleClearHistory does meanwhile, messages never holds an
\* assistant reply whose user message is missing: every assistant message
\* directly follows a user message.
C19_ReplyFollowsItsQuestion ==
    \A k \in 1..Len(chat.messages) :
        chat.messages[k].role = "assistant" =>
            /\ k > 1
            /\ chat.messages[k - 1].role = "user"

(* ------------------------- ApiClient.fetch's claim ---------------------- *)
\* b.k as the claim reads it: undefined when b is not an object with k.
Field(b, k) == IF b.t = "object" THEN Get(b, k) ELSE JUndefined

\* The message the precedence rule gives for response r.
PrecedenceMessage(r) ==
    LET message == Field(Field(r.body, "error"), "message")
        detail  == Field(r.body, "detail")
    IN  CASE ~r.parses /\ r.statusText # "" -> <<r.statusText>>
          [] ~r.parses /\ r.statusText = "" -> <<"API request failed">>
          [] r.parses /\ message.t = "string" -> <<message.s>>
          [] r.parses /\ message.t # "string" /\ detail.t = "string" -> <<detail.s>>
          [] r.parses /\ message.t # "string" /\ detail.t \in {"object", "array"} ->
                 JSONStringify(detail)
          [] OTHER -> <<"API request failed">>

\* C20: for a non-2xx response the thrown Error's message is
\* body.error.message if that is a string; otherwise body.detail if it is a
\* string; otherwise JSON.stringify(body.detail) if detail is a non-null
\* object; otherwise 'API request failed'; and when the body cannot be
\* parsed as JSON, the response's statusText, or 'API request failed' when
\* statusText is empty.
C20_ErrorMessagePrecedence ==
    (response # NoResponse /\ ~Ok(response)) =>
        /\ outcome.threw
        /\ outcome.message = PrecedenceMessage(response)

\* A non-2xx response whose body carries both error.message and detail.
C20_Witness ==
    /\ response # NoResponse
    /\ ~Ok(response)
    /\ response.parses
    /\ Field(Field(response.body, "error"), "message") = JStr("Database connection failed")
    /\ Field(response.body, "detail") = JStr("Test error")
    /\ outcome.threw
    /\ outcome.message = <<"Database connection failed">>

\* The last ApiClient call has settled.
Settled == issued # <<>> /\ ~Pending

\* C21: every ApiClient request ends in one of two ways: on an OK response
\* it resolves with the parsed JSON body and logs nothing; on a non-OK
\* response or a network failure it logs the error exactly once with the
\* prefix 'API request failed:' and rejects with that same error.
C21_ResolvesOrLogsAndRejects ==
    Settled =>
        IF response # NoResponse /\ Ok(response)
        THEN /\ ~outcome.threw
             /\ outcome.value = response.body
             /\ outcome.logs = <<>>
        ELSE /\ outcome.threw
             /\ outcome.logs = << <<"API request failed:", outcome.message>> >>

\* The headers the caller of the last ApiClient call supplied.
SuppliedHeaders ==
    IF call.helper = "fetch" /\ "headers" \in DOMAIN call.options
    THEN call.options["headers"] ELSE EmptyObject

\* C22: each of get, post, patch and delete issues exactly one fetch to
\* baseUrl followed by the endpoint, with its own method, with the JSON
\* serialization of the data as body for post and patch and no body for
\* get and delete, and with headers that contain Content-Type
\* application/json plus every caller-supplied header, a caller-supplied
\* header winning over the default of the same name.
C22_RequestConstruction ==
    call # NoCall =>
        /\ Len(issued) = 1
        /\ issued[1].url = <<API_BASE_URL, call.endpoint>>
        /\ LET init    == issued[1].init
               headers == init["headers"]
           IN  /\ call.helper = "get" =>
                      init["method"] = "GET" /\ "body" \notin DOMAIN init
               /\ call.helper = "delete" =>
                      init["method"] = "DELETE" /\ "body" \notin DOMAIN init
               /\ call.helper = "post" =>
                      init["method"] = "POST" /\ init["body"] = JSONStringify(call.data)
               /\ call.helper = "patch" =>
                      init["method"] = "PATCH" /\ init["body"] = JSONStringify(call.data)
               /\ "Content-Type" \in DOMAIN headers
               /\ "Content-Type" \notin DOMAIN SuppliedHeaders =>
                      headers["Content-Type"] = "application/json"
               /\ \A k \in DOMAIN SuppliedHeaders : headers[k] = SuppliedHeaders[k]

\* A post has issued its fetch with the serialized data as body.
C22_Witness ==
    /\ call.helper = "post"
    /\ call.data = JObj(<<Member("name", JStr("Test"))>>)
    /\ Len(issued) = 1
    /\ issued[1].init["method"] = "POST"
    /\ issued[1].init["body"] = <<"{", "\"", "name", "\"", ":", "\"", "Test", "\"", "}">>
    /\ issued[1].init["headers"]["Content-Type"] = "application/json"

(* ------------------------------ C23 ------------------------------------ *)
\* This step dispatched a well-formed 'progress' frame whose onProgress call
\* threw: the call is followed by one more entry of the trace.
ProgressCallbackThrew ==
    /\ FrameDispatched
    /\ Last(dispatched').name = "progress"
    /\ Last(dispatched').data.wellFormed
    /\ Len(trace') = Len(trace) + 2
    /\ trace'[Len(trace) + 1].op = "onProgress"
    /\ Last(trace').op # "close"

\* C23: an exception thrown by onProgress while a 'progress' frame is handled
\* does not escape the listener (it is logged), does not close the
\* connection, and does not keep later frames from onProgress: the
\* onProgress calls stay, in order, the decoded well-formed frames dispatched.
C23_ProgressCallbackThrowContained ==
    /\ [](NoListenerEscape /\ Args(Calls(trace, "onProgress")) = Decoded(dispatched))
    /\ [][ProgressCallbackThrew =>
              /\ UNCHANGED <<readyState, fetchActive, closedBy, disposeCalls>>
              /\ Last(trace') = [op |-> "console.error",
                                 arg |-> "Failed to parse progress event:"]]_vars

\* onProgress threw on the first 'progress' frame; the connection stayed
\* open and the next frame was delivered.
C23_Witness ==
    /\ Len(dispatched) = 2
    /\ dispatched[1].name = "progress" /\ dispatched[1].data.wellFormed
    /\ dispatched[2].name = "progress" /\ dispatched[2].data.wellFormed
    /\ Len(trace) >= 3
    /\ trace[1].op = "onProgress"
    /\ trace[2] = [op |-> "console.error", arg |-> "Failed to parse progress event:"]
    /\ trace[3].op = "onProgress"
    /\ readyState = "OPEN"

(* ------------------------------ C24 ------------------------------------ *)
\* C24: every step in which a transport error is fired at eventSource.onerror
\* leaves the connection closed, whether onError was supplied or not and
\* whether it returns, disposes or throws.
C24_TransportErrorCloses ==
    [][Len(SelectSeq(trace', LAMBDA e : e.arg = "SSE connection error:")) >
       Len(SelectSeq(trace, LAMBDA e : e.arg = "SSE connection error:"))
         => readyState' = "CLOSED" /\ ~fetchActive']_vars

(* ------------------------------ C25 ------------------------------------ *)
\* C25: in every reachable state of the admin page isReindexing is true
\* exactly when reindexStatus is 'running', whatever sequence of
\* openReindexModal, handleReindex, answers of the launch, stream events,
\* transport errors, handleCancel and closeReindexModal led to it.
C25_ReindexingIffRunning ==
    page.isReindexing <=> page.reindexStatus = "running"

(* ------------------------------ C26 ------------------------------------ *)
\* C26: handleProgress maps the event's status onto the page: 'completed'
\* gives reindexStatus 'success'; 'failed' and 'cancelled' give 'error' with
\* a reindexError that is not null; all three set isReindexing to false;
\* 'pending' and 'running' leave reindexStatus, reindexError and
\* isReindexing as they were.
C26_StatusMapping ==
    [][lastFrame' # lastFrame =>
         LET status == lastFrame'.event.status
         IN  /\ status = "completed" => page'.reindexStatus = "success"
             /\ status \in {"failed", "cancelled"} =>
                    page'.reindexStatus = "error" /\ page'.reindexError # Null
             /\ status \in TerminalStatuses => ~page'.isReindexing
             /\ status \in {"pending", "running"} =>
                    /\ page'.reindexStatus = page.reindexStatus
                    /\ page'.reindexError = page.reindexError
                    /\ page'.isReindexing = page.isReindexing]_pageVars

\* A 'failed' event whose message is the empty string reached a running page:
\* the page shows an error whose text is that empty string, not null.
C26_Witness ==
    /\ lastFrame.event.status = "failed"
    /\ lastFrame.event.message = <<"">>
    /\ page.reindexStatus = "error"
    /\ page.reindexError = <<"">>
    /\ ~page.isReindexing

LaunchFailed == starting' = starting - 1 /\ Len(subs') = Len(subs)

\* C28: when startReindex fails, handleReindex opens no subscription and
\* leaves reindexStatus 'error', isReindexing false, reindexMessage null,
\* taskId as it was and reindexError the message of the failure; a modal
\* still shown then offers Retry, whose handler is handleReindex.
C28_LaunchFailure ==
    [][LaunchFailed =>
         /\ subs' = subs
         /\ unsubscribe' = unsubscribe
         /\ page'.reindexStatus = "error"
         /\ ~page'.isReindexing
         /\ page'.reindexMessage = Null
         /\ page'.taskId = page.taskId
         /\ page'.reindexError = <<"Service unavailable">>
         /\ page'.showReindexModal = page.showReindexModal]_pageVars

\* The launch failed: the modal shows the error, there is no task id and no
\* subscription, and Retry (handleReindex) can be taken.
C28_Witness ==
    /\ page.showReindexModal
    /\ page.reindexStatus = "error"
    /\ page.reindexError = <<"Service unavailable">>
    /\ page.taskId = NoTask
    /\ subs = <<>>
    /\ starting = 0
    /\ ENABLED handleReindex

(* ------------------------------ C29 ------------------------------------ *)
\* C29: an auto-close timer that fires changes the page (closes the modal)
\* only if the modal has shown the success of the run that set the timer ever
\* since: not after the modal was closed and opened again, and not when it
\* shows the result of a later run.
C29_TimerClosesOwnRunOnly ==
    [][(Len(timers') < Len(timers) /\ page' # page) => Head(timers).fresh]_pageVars

(* ------------------------------ C30 ------------------------------------ *)
\* The user messages among ms.
UserMessages(ms) == SelectSeq(ms, LAMBDA m : m.role = "user")

\* C30: at most one send is in flight. isSending is true exactly while a
\* sendMessage request awaits its answer, so it is false again after every
\* send, answered or failed. A request is issued only while isSending is
\* false, only for content that is not blank, and together with the user
\* message of its trimmed content. While isSending is true no call of
\* handleSendMessage adds a user message or issues a request.
C30_OneSendInFlight ==
    /\ [](chat.isSending <=> sending.active)
    /\ [][sends' # sends =>
              /\ ~chat.isSending /\ chat'.isSending
              /\ sends' = sends + 1
              /\ trim(sending'.content) # <<>>
              /\ chat'.messages =
                     Append(chat.messages,
                            [role |-> "user", content |-> trim(sending'.content)])]_chatVars
    /\ [][(chat.isSending /\ loading' = loading) =>
              /\ sends' = sends
              /\ Len(UserMessages(chat'.messages)) <= Len(UserMessages(chat.messages))]_chatVars
    /\ [][(sending.active /\ ~sending'.active) => ~chat'.isSending]_chatVars

\* Two sends were made one after the other: the first failed, the second is
\* in flight, and calls made meanwhile have added nothing.
C30_Witness ==
    /\ sends = 2
    /\ sendOutcome = "none"
    /\ sending.active
    /\ chat.isSending
    /\ ~chat.isLoading
    /\ Len(UserMessages(chat.messages)) = 1
    /\ chat.messages = <<sending.userMessage>>

====
